---------------------------- MODULE Spec2Model ----------------------------
(***************************************************************************)
(* A model of AnimationLayersManager.py: the keyframe codec                *)
(* (serialize_curve / deserialize_curve), the curve collector              *)
(* (get_serialized_fcurves), the animated-component scan                   *)
(* (get_animated_components) and the layer transfer of the tool            *)
(* (transfer_anim_layers) together with the source/destination tree        *)
(* check boxes that select what is transferred.                            *)
(*                                                                         *)
(* The host (MotionBuilder's pyfbsdk) is modelled by its contract as the   *)
(* script relies on it: a take owns a stack of layers, index 0 at the      *)
(* bottom; CreateNewLayer appends on top; an AnimationNode's FCurve is the *)
(* curve of that node on the current take's selected layer; an FCurve      *)
(* keeps its keys ordered by time, one key per time.                       *)
(*                                                                         *)
(* Tangent weights are counted in units of 0.00001, so 0.3333 is 33330.    *)
(***************************************************************************)
EXTENDS Integers, Sequences, FiniteSets, TLC

VARIABLES
    takes,          \* the scene's takes: <<[Name, layers, cur]>>
    curTake,        \* FBSystem().CurrentTake, an index into takes
    nodes_src,      \* source tree: per take [Checked, children: <<[data, Checked]>>]
    nodes_dst,      \* destination tree: per take [Checked]
    transfers,      \* number of Transfer runs so far
    created,        \* log of the layers the last Transfer run created
    raised,         \* whether the last Transfer run was left by an exception
    idleTake,       \* whether the last Transfer run found a checked take node
                    \* with no checked layer node
    fcurve,         \* codec: the target FCurve of the Decode in progress
    fcurve0,        \* codec: what the target FCurve held when Decode was called
    key_data_list,  \* codec: the serialized records given to Decode
    pc,             \* codec: position inside deserialize_curve
    idx,            \* codec: loop index inside deserialize_curve
    src_fcurve,     \* codec: the FCurve handed to serialize_curve
    call,           \* the last call of get_animated_components or
                    \* get_serialized_fcurves: [fn, arg, ret, exc]
    unresolved      \* the AnimationNodes whose FCurve the host does not give
                    \* on a layer made by CreateNewLayer

vars == <<takes, curTake, nodes_src, nodes_dst, transfers, created, raised, idleTake,
          fcurve, fcurve0, key_data_list, pc, idx, src_fcurve, call, unresolved>>

hostVars == <<takes, curTake, nodes_src, nodes_dst, transfers, created, raised, idleTake>>
codecVars == <<fcurve, fcurve0, key_data_list, pc, idx>>
probeVars == <<src_fcurve, call, unresolved>>

-----------------------------------------------------------------------------
(* Bounds of the model *)

\* largest key time of a sampled record
MaxTime == 2
\* longest sampled record list handed to Decode
MaxRecs == 2
\* most layers a take may hold (Transfer is not run beyond it)
MaxLayers == 5
\* most Transfer runs in one behaviour
MaxTransfers == 2

-----------------------------------------------------------------------------
(* Host enumerations: X.values[n] and int(x) *)

FBInterpolation_values ==
    <<"kFBInterpolationConstant", "kFBInterpolationLinear", "kFBInterpolationCubic">>

FBTangentMode_values ==
    <<"kFBTangentModeAuto", "kFBTangentModeTCB", "kFBTangentModeUser",
      "kFBTangentModeBreak">>

FBTangentConstantMode_values ==
    <<"kFBTangentConstantModeNormal", "kFBTangentConstantModeNext">>

\* X.values[n]: the enumerator with integer value n
EnumValue(values, n) == values[n + 1]

\* int(x): the integer value of enumerator x
EnumInt(values, x) == (CHOOSE n \in 1..Len(values) : values[n] = x) - 1

\* FBTime(ticks) followed by .Get() is the tick count itself
FBTime(ticks) == ticks

-----------------------------------------------------------------------------
(* tangent_weight_is_default *)

WeightLo == 33330
WeightHi == 33340
\* the weight a key has when none was ever set on it: 1/3
HostDefaultWeight == 33333

tangent_weight_is_default_Inclusive(tangent_weight) ==
    WeightLo <= tangent_weight /\ tangent_weight < WeightHi

tangent_weight_is_default(tangent_weight) ==
    WeightLo < tangent_weight /\ tangent_weight < WeightHi

-----------------------------------------------------------------------------
(* FCurve: a sequence of keys ordered by strictly increasing Time *)

\* a key as KeyAdd(time, value) creates it
NewKey(time, value) ==
    [Time |-> time, Value |-> value,
     Interpolation |-> "kFBInterpolationCubic",
     TangentMode |-> "kFBTangentModeAuto",
     TangentConstantMode |-> "kFBTangentConstantModeNormal",
     LeftDerivative |-> 0, RightDerivative |-> 0,
     LeftTangentWeight |-> HostDefaultWeight,
     RightTangentWeight |-> HostDefaultWeight]

\* index at which a key of the given time sits, or would be inserted
KeyPos(keys, time) == Cardinality({j \in 1..Len(keys) : keys[j].Time < time}) + 1

HasKeyAt(keys, time) == \E j \in 1..Len(keys) : keys[j].Time = time

\* fcurve.KeyAdd(time, value): the curve afterwards. A key already at that
\* time is modified, no key is added.
KeyAdd(keys, time, value) ==
    LET p == KeyPos(keys, time) IN
    IF HasKeyAt(keys, time)
    THEN [keys EXCEPT ![p].Value = value]
    ELSE SubSeq(keys, 1, p - 1) \o <<NewKey(time, value)>> \o SubSeq(keys, p, Len(keys))

EditClear_Keep(keys) == keys

\* fcurve.EditClear()
EditClear(keys) == << >>

-----------------------------------------------------------------------------
(* serialize_curve *)

serialize_key_SwapsWeights(key) ==
    [time |-> key.Time,
     value |-> key.Value,
     interpolation |-> EnumInt(FBInterpolation_values, key.Interpolation),
     tangent_mode |-> EnumInt(FBTangentMode_values, key.TangentMode),
     constant_mode |-> EnumInt(FBTangentConstantMode_values, key.TangentConstantMode),
     left_derivative |-> key.LeftDerivative,
     right_derivative |-> key.RightDerivative,
     left_weight |-> key.RightTangentWeight,
     right_weight |-> key.LeftTangentWeight]

serialize_key(key) ==
    [time |-> key.Time,
     value |-> key.Value,
     interpolation |-> EnumInt(FBInterpolation_values, key.Interpolation),
     tangent_mode |-> EnumInt(FBTangentMode_values, key.TangentMode),
     constant_mode |-> EnumInt(FBTangentConstantMode_values, key.TangentConstantMode),
     left_derivative |-> key.LeftDerivative,
     right_derivative |-> key.RightDerivative,
     left_weight |-> key.LeftTangentWeight,
     right_weight |-> key.RightTangentWeight]

serialize_curve(keys) == [j \in 1..Len(keys) |-> serialize_key(keys[j])]

-----------------------------------------------------------------------------
(* deserialize_curve *)

RemapTangentMode_Keep(mode) == mode

\* lines 125-126: the TCB mode is replaced by the Break mode
RemapTangentMode(mode) ==
    IF mode = "kFBTangentModeTCB" THEN "kFBTangentModeBreak" ELSE mode

Loop1Step_SetsDerivatives(keys, key_data) ==
    LET time == FBTime(key_data.time)
        added == KeyAdd(keys, time, key_data.value)
        key_index == KeyPos(keys, time)
    IN  [added EXCEPT
            ![key_index].Interpolation =
                EnumValue(FBInterpolation_values, key_data.interpolation),
            ![key_index].TangentMode =
                RemapTangentMode(EnumValue(FBTangentMode_values, key_data.tangent_mode)),
            ![key_index].TangentConstantMode =
                EnumValue(FBTangentConstantMode_values, key_data.constant_mode),
            ![key_index].LeftDerivative = key_data.left_derivative,
            ![key_index].RightDerivative = key_data.right_derivative]

\* one iteration of loop 1: add the key, set its non-numeric properties
Loop1Step(keys, key_data) ==
    LET time == FBTime(key_data.time)
        added == KeyAdd(keys, time, key_data.value)
        key_index == KeyPos(keys, time)
    IN  [added EXCEPT
            ![key_index].Interpolation =
                EnumValue(FBInterpolation_values, key_data.interpolation),
            ![key_index].TangentMode =
                RemapTangentMode(EnumValue(FBTangentMode_values, key_data.tangent_mode)),
            ![key_index].TangentConstantMode =
                EnumValue(FBTangentConstantMode_values, key_data.constant_mode)]

\* fcurve.Keys[i] raises IndexError when the curve holds fewer than i keys
Loop2Fails(keys, i) == i > Len(keys)

Loop2Step_NoRightDerivative(keys, i, key_data) ==
    [keys EXCEPT
        ![i].LeftDerivative = key_data.left_derivative,
        ![i].LeftTangentWeight =
            IF ~tangent_weight_is_default(key_data.left_weight)
            THEN key_data.left_weight ELSE @,
        ![i].RightTangentWeight =
            IF ~tangent_weight_is_default(key_data.right_weight)
            THEN key_data.right_weight ELSE @]

Loop2Step_LeftDecidesBoth(keys, i, key_data) ==
    [keys EXCEPT
        ![i].LeftDerivative = key_data.left_derivative,
        ![i].RightDerivative = key_data.right_derivative,
        ![i].LeftTangentWeight =
            IF ~tangent_weight_is_default(key_data.left_weight)
            THEN key_data.left_weight ELSE @,
        ![i].RightTangentWeight =
            IF ~tangent_weight_is_default(key_data.left_weight)
            THEN key_data.right_weight ELSE @]

\* one iteration of loop 2 (i counted from 1): derivatives, then the weights
Loop2Step(keys, i, key_data) ==
    [keys EXCEPT
        ![i].LeftDerivative = key_data.left_derivative,
        ![i].RightDerivative = key_data.right_derivative,
        ![i].LeftTangentWeight =
            IF ~tangent_weight_is_default(key_data.left_weight)
            THEN key_data.left_weight ELSE @,
        ![i].RightTangentWeight =
            IF ~tangent_weight_is_default(key_data.right_weight)
            THEN key_data.right_weight ELSE @]

RECURSIVE Loop1(_, _, _)
Loop1(keys, recs, i) ==
    IF i > Len(recs) THEN keys ELSE Loop1(Loop1Step(keys, recs[i]), recs, i + 1)

\* loop 2 from position i on: [keys, ok]; ok is FALSE when it raised
RECURSIVE Loop2(_, _, _)
Loop2(keys, recs, i) ==
    IF i > Len(recs) THEN [keys |-> keys, ok |-> TRUE]
    ELSE IF Loop2Fails(keys, i) THEN [keys |-> keys, ok |-> FALSE]
    ELSE Loop2(Loop2Step(keys, i, recs[i]), recs, i + 1)

\* the whole of deserialize_curve(fcurve, key_data_list): [keys, ok]
deserialize_curve(keys, recs) == Loop2(Loop1(EditClear(keys), recs, 1), recs, 1)

-----------------------------------------------------------------------------
(* The scene: components and their AnimationNode hierarchies.  AnimationNodes
   are the same objects on every take and layer; only their FCurve differs. *)

\* FBSystem().Scene.Components; "Note" has no AnimationNode attribute
Components == <<"Cube", "Note", "Light">>

HasAnimationNode(comp) == comp # "Note"

\* comp.AnimationNode
AnimationNode(comp) == IF comp = "Cube" THEN "Cube.Root" ELSE "Light.Root"

\* the nodes that own an FCurve: the leaves
Leaves == {"Cube.T.X", "Cube.T.Y", "Light.Intensity"}

\* anim_node.Nodes
Nodes(anim_node) ==
    CASE anim_node = "Cube.Root" -> <<"Cube.T">>
      [] anim_node = "Cube.T" -> <<"Cube.T.X", "Cube.T.Y">>
      [] anim_node = "Light.Root" -> <<"Light.Intensity">>
      [] OTHER -> << >>

\* the layer that is exclusively selected in the current take
CurrentLayer(h) == h.takes[h.curTake].layers[h.takes[h.curTake].cur]

\* bool(anim_node.FCurve): only a leaf has one
HasFCurve(anim_node) == anim_node \in Leaves

\* anim_node.FCurve.Keys on the current take's selected layer
FCurveKeys(h, anim_node) == CurrentLayer(h).curves[anim_node]

\* anim_node.KeyCount
KeyCount(h, anim_node) ==
    IF HasFCurve(anim_node) THEN Len(FCurveKeys(h, anim_node)) ELSE 0

RECURSIVE has_keys(_, _)
RECURSIVE has_keys_in(_, _, _)
\* the loop of lines 61-64 over sub_nodes from position k on
has_keys_in(h, sub_nodes, k) ==
    IF k > Len(sub_nodes) THEN FALSE
    ELSE IF has_keys(h, sub_nodes[k]) THEN TRUE
    ELSE has_keys_in(h, sub_nodes, k + 1)

has_keys(h, anim_node) ==
    IF KeyCount(h, anim_node) # 0 THEN TRUE
    ELSE has_keys_in(h, Nodes(anim_node), 1)

RECURSIVE get_animated_components_from(_, _)
get_animated_components_from_StopsAtMissingRoot(h, k) ==
    IF k > Len(Components) THEN << >>
    ELSE LET comp == Components[k] IN
         IF ~HasAnimationNode(comp) THEN << >>
         ELSE IF has_keys(h, AnimationNode(comp))
         THEN <<comp>> \o get_animated_components_from(h, k + 1)
         ELSE get_animated_components_from(h, k + 1)

\* lines 71-76: the components from position k on
get_animated_components_from(h, k) ==
    IF k > Len(Components) THEN << >>
    ELSE LET comp == Components[k]
             rest == get_animated_components_from(h, k + 1)
         IN  IF HasAnimationNode(comp) /\ has_keys(h, AnimationNode(comp))
             THEN <<comp>> \o rest
             ELSE rest

get_animated_components(h) == get_animated_components_from(h, 1)

\* dict.update: the entries of d2 added to, or replacing, those of d1
DictUpdate(d1, d2) ==
    [k \in (DOMAIN d1) \cup (DOMAIN d2) |-> IF k \in DOMAIN d2 THEN d2[k] ELSE d1[k]]

EmptyDict == [k \in {} |-> << >>]

fill_leaf_AlsoEmpty(h, anim_node, props) ==
    DictUpdate(props, [k \in {anim_node} |-> serialize_curve(FCurveKeys(h, anim_node))])

fill_leaf_SkipSingleKey(h, anim_node, props) ==
    IF Len(FCurveKeys(h, anim_node)) > 1
    THEN DictUpdate(props, [k \in {anim_node} |-> serialize_curve(FCurveKeys(h, anim_node))])
    ELSE props

\* lines 159-161: a leaf is recorded when its FCurve has keys
fill_leaf(h, anim_node, props) ==
    IF Len(FCurveKeys(h, anim_node)) > 0
    THEN DictUpdate(props, [k \in {anim_node} |-> serialize_curve(FCurveKeys(h, anim_node))])
    ELSE props

RECURSIVE fill_props_recursively(_, _, _)
RECURSIVE fill_props_nodes(_, _, _, _)
fill_props_nodes_FirstOnly(h, sub_nodes, k, props) ==
    IF k > Len(sub_nodes) \/ k > 1 THEN props
    ELSE fill_props_nodes(h, sub_nodes, k + 1,
                          fill_props_recursively(h, sub_nodes[k], props))

\* lines 164-166: the sub-nodes from position k on
fill_props_nodes(h, sub_nodes, k, props) ==
    IF k > Len(sub_nodes) THEN props
    ELSE fill_props_nodes(h, sub_nodes, k + 1,
                          fill_props_recursively(h, sub_nodes[k], props))

fill_props_recursively(h, anim_node, props) ==
    IF HasFCurve(anim_node)
    THEN fill_leaf(h, anim_node, props)
    ELSE fill_props_nodes(h, Nodes(anim_node), 1, props)

get_serialized_fcurves(h, component) ==
    fill_props_recursively(h, AnimationNode(component), EmptyDict)

\* lines 320-323: the curves of every animated component, merged
RECURSIVE collect_curves(_, _, _, _)
collect_curves(h, components, k, curves) ==
    IF k > Len(components) THEN curves
    ELSE collect_curves(h, components, k + 1,
                        DictUpdate(curves, get_serialized_fcurves(h, components[k])))

-----------------------------------------------------------------------------
(* Takes and layers *)

BaseAnimationName == [stem |-> "BaseAnimation", no |-> 0]

\* the name the host gives when the wanted one is used by another layer of
\* the take: the same stem with the first free number
UniqueName(used, name) ==
    IF name \notin used THEN name
    ELSE [stem |-> name.stem,
          no |-> CHOOSE n \in 1..(Cardinality(used) + 1) :
                    /\ [stem |-> name.stem, no |-> n] \notin used
                    /\ \A m \in 1..(n - 1) : [stem |-> name.stem, no |-> m] \in used]

NoCurves == [n \in Leaves |-> << >>]

\* the layer take.CreateNewLayer() makes
FreshLayer(used) ==
    [Name |-> UniqueName(used, [stem |-> "AnimLayer", no |-> 1]),
     LayerMode |-> "kFBLayerModeAdditive",
     LayerRotationMode |-> "kFBLayerRotationModeEulerRotation",
     Weight |-> 100,
     Mute |-> FALSE,
     curves |-> NoCurves]

LayerNames(take, except) ==
    { take.layers[i].Name : i \in (1..Len(take.layers)) \ {except} }

\* take.CreateNewLayer(): the new layer goes on top of the stack
CreateNewLayer(h, t) ==
    [h EXCEPT !.takes[t].layers =
        Append(@, FreshLayer(LayerNames(h.takes[t], 0)))]

\* FBSystem().CurrentTake = take
SetCurrentTake(h, t) == [h EXCEPT !.curTake = t]

\* layer.SelectLayer(True, True): layer i of take t becomes the only selected one
SelectLayer(h, t, i) == [h EXCEPT !.takes[t].cur = i]

\* layer.Name = name
SetLayerName(h, t, i, name) ==
    [h EXCEPT !.takes[t].layers[i].Name = UniqueName(LayerNames(h.takes[t], i), name)]

-----------------------------------------------------------------------------
(* The source and destination trees *)

reload_src_tree_BottomFirst(scene_takes) ==
    [t \in 1..Len(scene_takes) |->
        [Checked |-> FALSE,
         children |-> [k \in 1..Len(scene_takes[t].layers) |->
                          [data |-> k, Checked |-> FALSE]]]]

\* reload_src_tree: one node per take, and under it one node per layer, the
\* top layer first (i runs from num_layers - 1 down to 0); nothing is checked
reload_src_tree(scene_takes) ==
    [t \in 1..Len(scene_takes) |->
        [Checked |-> FALSE,
         children |-> [k \in 1..Len(scene_takes[t].layers) |->
                          [data |-> Len(scene_takes[t].layers) - k + 1,
                           Checked |-> FALSE]]]]

\* reload_dst_tree: one unchecked node per take
reload_dst_tree(scene_takes) == [t \in 1..Len(scene_takes) |-> [Checked |-> FALSE]]

-----------------------------------------------------------------------------
(* transfer_anim_layers.  h is the host while the function runs:
   [takes, curTake, err, log]; err is TRUE once an exception has left the
   function, and nothing runs after it. *)

\* the order in which a dict of AnimationNodes is iterated
AnimNodeOrder == <<"Cube.T.X", "Cube.T.Y", "Light.Intensity">>

SetFCurveKeys(h, anim_node, keys) ==
    [h EXCEPT !.takes[h.curTake].layers[h.takes[h.curTake].cur].curves[anim_node] = keys]

RECURSIVE collect_layers_NoSelect(_, _, _, _)
collect_layers_NoSelect(h, t, children, k) ==
    IF k > Len(children) THEN [h |-> h, layers_data |-> << >>]
    ELSE IF children[k].Checked
    THEN LET src_layer == children[k].data
             components == get_animated_components(h)
             curves == collect_curves(h, components, 1, EmptyDict)
             rest == collect_layers_NoSelect(h, t, children, k + 1)
         IN  [h |-> rest.h,
              layers_data |->
                  <<[layer |-> [take |-> t, index |-> src_layer], curves |-> curves]>>
                  \o rest.layers_data]
    ELSE collect_layers_NoSelect(h, t, children, k + 1)

\* lines 313-324, the children from position k on: [h, layers_data]
RECURSIVE collect_layers(_, _, _, _)
collect_layers(h, t, children, k) ==
    IF k > Len(children) THEN [h |-> h, layers_data |-> << >>]
    ELSE IF children[k].Checked
    THEN LET src_layer == children[k].data
             h1 == SelectLayer(h, t, src_layer)
             components == get_animated_components(h1)
             curves == collect_curves(h1, components, 1, EmptyDict)
             rest == collect_layers(h1, t, children, k + 1)
         IN  [h |-> rest.h,
              layers_data |->
                  <<[layer |-> [take |-> t, index |-> src_layer], curves |-> curves]>>
                  \o rest.layers_data]
    ELSE collect_layers(h, t, children, k + 1)

Reversed_Keep(seq) == seq

\* seq[::-1]
Reversed(seq) == [k \in 1..Len(seq) |-> seq[Len(seq) - k + 1]]

\* lines 348-350, the dict entries from position k of the iteration order on.
\* Where the host gives no FCurve for the node, anim_node.FCurve is None and
\* fcurve.EditClear() (line 115) raises AttributeError.
RECURSIVE replay_curves(_, _, _)
replay_curves(h, curves, k) ==
    IF h.err \/ k > Len(AnimNodeOrder) THEN h
    ELSE LET anim_node == AnimNodeOrder[k] IN
         IF anim_node \notin DOMAIN curves THEN replay_curves(h, curves, k + 1)
         ELSE IF anim_node \in h.unresolved THEN [h EXCEPT !.err = TRUE]
         ELSE LET res == deserialize_curve(FCurveKeys(h, anim_node), curves[anim_node])
                  h1 == SetFCurveKeys(h, anim_node, res.keys)
              IN  replay_curves([h1 EXCEPT !.err = ~res.ok], curves, k + 1)

copy_attributes_NoWeight(h, d, i, src_layer) ==
    [SetLayerName(h, d, i, src_layer.Name) EXCEPT
        !.takes[d].layers[i].LayerMode = src_layer.LayerMode,
        !.takes[d].layers[i].LayerRotationMode = src_layer.LayerRotationMode]

\* lines 339-342
copy_attributes(h, d, i, src_layer) ==
    [SetLayerName(h, d, i, src_layer.Name) EXCEPT
        !.takes[d].layers[i].LayerMode = src_layer.LayerMode,
        !.takes[d].layers[i].LayerRotationMode = src_layer.LayerRotationMode,
        !.takes[d].layers[i].Weight = src_layer.Weight]

replay_layer_NoSelect(h, d, layer_map) ==
    LET h1 == CreateNewLayer(h, d)
        layerCount == Len(h1.takes[d].layers)
        src_layer == h1.takes[layer_map.layer.take].layers[layer_map.layer.index]
        h2 == copy_attributes(h1, d, layerCount, src_layer)
        h4 == [h2 EXCEPT !.log = Append(@, [dst |-> d, index |-> layerCount,
                                            src_take |-> layer_map.layer.take,
                                            src_index |-> layer_map.layer.index])]
    IN  replay_curves(h4, layer_map.curves, 1)

\* lines 333-350 for one entry of layers_data on destination take d
replay_layer(h, d, layer_map) ==
    LET h1 == CreateNewLayer(h, d)
        layerCount == Len(h1.takes[d].layers)
        src_layer == h1.takes[layer_map.layer.take].layers[layer_map.layer.index]
        h2 == copy_attributes(h1, d, layerCount, src_layer)
        h3 == SelectLayer(h2, d, layerCount)
        h4 == [h3 EXCEPT !.log = Append(@, [dst |-> d, index |-> layerCount,
                                            src_take |-> layer_map.layer.take,
                                            src_index |-> layer_map.layer.index])]
    IN  replay_curves(h4, layer_map.curves, 1)

\* the layer a layers_data entry refers to has its name used on take d
NameTaken(h, d, layer_map) ==
    h.takes[layer_map.layer.take].layers[layer_map.layer.index].Name
        \in LayerNames(h.takes[d], 0)

RECURSIVE replay_layers_SkipSameName(_, _, _, _)
replay_layers_SkipSameName(h, d, layers_data, k) ==
    IF h.err \/ k > Len(layers_data) THEN h
    ELSE IF NameTaken(h, d, layers_data[k])
    THEN replay_layers_SkipSameName(h, d, layers_data, k + 1)
    ELSE replay_layers_SkipSameName(replay_layer(h, d, layers_data[k]), d, layers_data, k + 1)

RECURSIVE replay_layers_EmptyMakesLayer(_, _, _, _)
replay_layers_EmptyMakesLayer(h, d, layers_data, k) ==
    IF Len(layers_data) = 0 THEN CreateNewLayer(h, d)
    ELSE IF h.err \/ k > Len(layers_data) THEN h
    ELSE replay_layers_EmptyMakesLayer(replay_layer(h, d, layers_data[k]), d,
                                       layers_data, k + 1)

RECURSIVE replay_layers_ContinuesAfterError(_, _, _, _)
replay_layers_ContinuesAfterError(h, d, layers_data, k) ==
    IF k > Len(layers_data) THEN h
    ELSE LET r == replay_layer([h EXCEPT !.err = FALSE], d, layers_data[k])
         IN  replay_layers_ContinuesAfterError([r EXCEPT !.err = h.err \/ r.err], d,
                                               layers_data, k + 1)

\* line 332: the entries of layers_data from position k on
RECURSIVE replay_layers(_, _, _, _)
replay_layers(h, d, layers_data, k) ==
    IF h.err \/ k > Len(layers_data) THEN h
    ELSE replay_layers(replay_layer(h, d, layers_data[k]), d, layers_data, k + 1)

\* lines 329-350, the destination nodes from position d on
RECURSIVE replay_takes(_, _, _, _)
replay_takes(h, dst, layers_data, d) ==
    IF h.err \/ d > Len(dst) THEN h
    ELSE IF dst[d].Checked
    THEN replay_takes(replay_layers(SetCurrentTake(h, d), d, layers_data, 1),
                      dst, layers_data, d + 1)
    ELSE replay_takes(h, dst, layers_data, d + 1)

\* lines 306-350, the source take nodes from position t on
RECURSIVE transfer_takes(_, _, _, _)
transfer_takes(h, src, dst, t) ==
    IF h.err \/ t > Len(src) THEN h
    ELSE IF src[t].Checked
    THEN LET got == collect_layers(SetCurrentTake(h, t), t, src[t].children, 1)
             layers_data == Reversed(got.layers_data)
         IN  transfer_takes(replay_takes(got.h, dst, layers_data, 1), src, dst, t + 1)
    ELSE transfer_takes(h, src, dst, t + 1)

transfer_anim_layers(h, src, dst) == transfer_takes(h, src, dst, 1)

-----------------------------------------------------------------------------
(* Inputs of the codec: sampled records and sampled prior curve content *)

Shape(value, interpolation, tangent_mode, constant_mode, ld, rd, lw, rw) ==
    [time |-> 0, value |-> value, interpolation |-> interpolation,
     tangent_mode |-> tangent_mode, constant_mode |-> constant_mode,
     left_derivative |-> ld, right_derivative |-> rd,
     left_weight |-> lw, right_weight |-> rw]

\* records as serialize_curve writes them, the time left open
SampleShapes ==
    << Shape(0, 2, 3, 0, 0, 0, HostDefaultWeight, HostDefaultWeight),
       Shape(10, 2, 1, 0, 1, -1, WeightLo, 50000),
       Shape(5, 1, 0, 1, 2, 2, 50000, 33335),
       Shape(-3, 0, 2, 1, -2, 3, WeightHi, WeightLo),
       Shape(7, 2, 1, 0, 4, 5, 33339, 33331),
       Shape(1, 2, 3, 0, 1, 1, 33337, WeightHi),
       Shape(8, 1, 0, 1, -1, 2, 20000, 90000),
       Shape(-6, 2, 3, 0, 3, -4, 100000, 33341) >>

SampleRecords ==
    { [SampleShapes[s] EXCEPT !.time = t] : s \in 1..Len(SampleShapes), t \in 0..MaxTime }

RECURSIVE SeqsUpTo(_, _)
SeqsUpTo(S, n) ==
    IF n = 0 THEN { << >> }
    ELSE LET shorter == SeqsUpTo(S, n - 1)
         IN  shorter \cup { Append(q, x) : q \in {r \in shorter : Len(r) = n - 1}, x \in S }

\* a key that was on the target curve before Decode
OldKey(time) ==
    [NewKey(time, 99) EXCEPT !.TangentMode = "kFBTangentModeTCB",
                             !.LeftTangentWeight = 70000,
                             !.RightDerivative = 9]

PriorCurves == { << >>, <<OldKey(1)>>, <<OldKey(0), OldKey(3)>> }

-----------------------------------------------------------------------------
(* The scene the tool is opened on *)

\* the key of an FCurve that serialize_curve turns into the given record
KeyOf(rec) ==
    [Time |-> rec.time, Value |-> rec.value,
     Interpolation |-> EnumValue(FBInterpolation_values, rec.interpolation),
     TangentMode |-> EnumValue(FBTangentMode_values, rec.tangent_mode),
     TangentConstantMode |-> EnumValue(FBTangentConstantMode_values, rec.constant_mode),
     LeftDerivative |-> rec.left_derivative, RightDerivative |-> rec.right_derivative,
     LeftTangentWeight |-> rec.left_weight, RightTangentWeight |-> rec.right_weight]

K(time, shape) == KeyOf([SampleShapes[shape] EXCEPT !.time = time])

Layer(name, mode, rotation, weight, x, y, intensity) ==
    [Name |-> [stem |-> name, no |-> 0],
     LayerMode |-> mode, LayerRotationMode |-> rotation, Weight |-> weight,
     Mute |-> FALSE,
     curves |-> [n \in Leaves |->
                    CASE n = "Cube.T.X" -> x
                      [] n = "Cube.T.Y" -> y
                      [] OTHER -> intensity]]

\* the scene: take T1 with layers BaseAnimation, A, B, C and take T2 with its
\* BaseAnimation layer only
SceneTakes ==
    << [Name |-> "T1", cur |-> 1,
        layers |->
          << Layer("BaseAnimation", "kFBLayerModeAdditive",
                   "kFBLayerRotationModeEulerRotation", 100,
                   <<K(0, 1), K(2, 2)>>, << >>, <<K(1, 5)>>),
             Layer("A", "kFBLayerModeOverride",
                   "kFBLayerRotationModeQuaternionRotation", 50,
                   << >>, <<K(0, 3)>>, << >>),
             Layer("B", "kFBLayerModeOverridePassthrough",
                   "kFBLayerRotationModeEulerRotation", 75,
                   <<K(1, 4)>>, <<K(0, 6), K(1, 2)>>, << >>),
             Layer("C", "kFBLayerModeAdditive",
                   "kFBLayerRotationModeQuaternionRotation", 0,
                   << >>, << >>, <<K(2, 3)>>) >>],
       [Name |-> "T2", cur |-> 1,
        layers |->
          << Layer("BaseAnimation", "kFBLayerModeAdditive",
                   "kFBLayerRotationModeEulerRotation", 100,
                   <<K(0, 6)>>, <<K(2, 1)>>, << >>) >>] >>

\* no call of get_animated_components or get_serialized_fcurves made yet
NoCall == [fn |-> "none", arg |-> "", ret |-> << >>, exc |-> FALSE]

\* the tool has been opened on the scene: populate_tool has run reload_trees
InitHost ==
    /\ takes = SceneTakes
    /\ curTake = 1
    /\ nodes_src = reload_src_tree(takes)
    /\ nodes_dst = reload_dst_tree(takes)
    /\ transfers = 0
    /\ created = << >>
    /\ raised = FALSE
    /\ idleTake = FALSE
    /\ call = NoCall
    /\ unresolved = {}

InitIdleCodec ==
    /\ fcurve = << >>
    /\ fcurve0 = << >>
    /\ key_data_list = << >>
    /\ pc = "idle"
    /\ idx = 0
    /\ src_fcurve = << >>

Init == InitHost /\ InitIdleCodec

\* every way the check boxes of the source tree can stand
AnySrcMarks(scene_takes) ==
    { [t \in 1..Len(scene_takes) |->
          [Checked |-> tc[t],
           children |-> [k \in 1..Len(scene_takes[t].layers) |->
                            [data |-> Len(scene_takes[t].layers) - k + 1,
                             Checked |-> k \in lc[t]]]]] :
        tc \in [1..Len(scene_takes) -> BOOLEAN],
        lc \in [1..Len(scene_takes) -> SUBSET (1..MaxLayers)] }

\* the tool with its source check boxes standing in any way
InitAnyMarks ==
    /\ takes = SceneTakes
    /\ curTake = 1
    /\ nodes_src \in AnySrcMarks(takes)
    /\ nodes_dst = reload_dst_tree(takes)
    /\ transfers = 0
    /\ created = << >>
    /\ raised = FALSE
    /\ idleTake = FALSE
    /\ call = NoCall
    /\ unresolved = {}
    /\ InitIdleCodec

-----------------------------------------------------------------------------
(* deserialize_curve, statement by statement *)

\* the records' times increase strictly
StrictlyIncreasing(recs) == \A j \in 1..(Len(recs) - 1) : recs[j].time < recs[j + 1].time

\* FCurves as the host holds them: one key per time, ordered by time
SampleCurves ==
    { [j \in 1..Len(recs) |-> KeyOf(recs[j])] :
        recs \in { r \in SeqsUpTo(SampleRecords, MaxRecs) : StrictlyIncreasing(r) } }

\* deserialize_curve is about to be called on a target curve, either with
\* sampled records or with the records serialize_curve is about to make of
\* a sampled FCurve
InitCodec ==
    /\ InitHost
    /\ fcurve \in PriorCurves
    /\ fcurve0 = fcurve
    /\ idx = 0
    /\ \/ /\ pc = "start"
          /\ key_data_list \in SeqsUpTo(SampleRecords, MaxRecs)
          /\ src_fcurve = << >>
       \/ /\ pc = "encode"
          /\ key_data_list = << >>
          /\ src_fcurve \in SampleCurves

\* serialize_curve(src_fcurve), lines 80-99; its result is handed to
\* deserialize_curve
EncodeCall ==
    /\ pc = "encode"
    /\ key_data_list' = serialize_curve(src_fcurve)
    /\ pc' = "start"
    /\ UNCHANGED <<src_fcurve, call, unresolved, fcurve, fcurve0, idx, hostVars>>

\* line 115
DecodeClear ==
    /\ pc = "start"
    /\ fcurve' = EditClear(fcurve)
    /\ pc' = "loop1"
    /\ idx' = 1
    /\ UNCHANGED <<probeVars, fcurve0, key_data_list, hostVars>>

\* lines 118-128, one record
DecodeLoop1 ==
    /\ pc = "loop1"
    /\ idx <= Len(key_data_list)
    /\ fcurve' = Loop1Step(fcurve, key_data_list[idx])
    /\ idx' = idx + 1
    /\ UNCHANGED <<probeVars, pc, fcurve0, key_data_list, hostVars>>

\* loop 1 is exhausted: on to loop 2
DecodeLoop1End ==
    /\ pc = "loop1"
    /\ idx > Len(key_data_list)
    /\ pc' = "loop2"
    /\ idx' = 1
    /\ UNCHANGED <<probeVars, fcurve, fcurve0, key_data_list, hostVars>>

\* lines 131-142, one position
DecodeLoop2 ==
    /\ pc = "loop2"
    /\ idx <= Len(key_data_list)
    /\ ~Loop2Fails(fcurve, idx)
    /\ fcurve' = Loop2Step(fcurve, idx, key_data_list[idx])
    /\ idx' = idx + 1
    /\ UNCHANGED <<probeVars, pc, fcurve0, key_data_list, hostVars>>

\* line 134 raises IndexError: deserialize_curve is left by the exception
DecodeLoop2Raise ==
    /\ pc = "loop2"
    /\ idx <= Len(key_data_list)
    /\ Loop2Fails(fcurve, idx)
    /\ pc' = "failed"
    /\ UNCHANGED <<probeVars, fcurve, fcurve0, idx, key_data_list, hostVars>>

\* loop 2 is exhausted: deserialize_curve returns
DecodeLoop2End ==
    /\ pc = "loop2"
    /\ idx > Len(key_data_list)
    /\ pc' = "done"
    /\ UNCHANGED <<probeVars, fcurve, fcurve0, idx, key_data_list, hostVars>>

NextCodec ==
    \/ EncodeCall
    \/ DecodeClear
    \/ DecodeLoop1
    \/ DecodeLoop1End
    \/ DecodeLoop2
    \/ DecodeLoop2Raise
    \/ DecodeLoop2End

SpecCodec == InitCodec /\ [][NextCodec]_vars

-----------------------------------------------------------------------------
(* The tool's callbacks *)

Takes == 1..Len(takes)

SomeChildChecked(node) == \E k \in 1..Len(node.children) : node.children[k].Checked

\* the user clicks the check box of take node t: tree_src_check_callback,
\* lines 594-596
ClickSrcTake(t) ==
    /\ transfers < MaxTransfers
    /\ LET checked == ~nodes_src[t].Checked IN
       nodes_src' = [nodes_src EXCEPT
                        ![t].Checked = checked,
                        ![t].children = [k \in DOMAIN @ |-> [@[k] EXCEPT !.Checked = checked]]]
    /\ UNCHANGED <<probeVars, takes, curTake, nodes_dst, transfers, created, raised, idleTake, codecVars>>

\* the user clicks the check box of layer node k under take node t:
\* tree_src_check_callback, lines 598-603
ClickSrcLayer(t, k) ==
    /\ transfers < MaxTransfers
    /\ k \in 1..Len(nodes_src[t].children)
    /\ LET clicked == [nodes_src EXCEPT ![t].children[k].Checked = ~@] IN
       nodes_src' = [clicked EXCEPT ![t].Checked = SomeChildChecked(clicked[t])]
    /\ UNCHANGED <<probeVars, takes, curTake, nodes_dst, transfers, created, raised, idleTake, codecVars>>

src_set_take_state_Keep(src) == src

\* src_set_take_state
src_set_take_state(src) ==
    [t \in DOMAIN src |-> [src[t] EXCEPT !.Checked = SomeChildChecked(src[t])]]

src_all_btn_callback ==
    /\ transfers < MaxTransfers
    /\ nodes_src' = [t \in DOMAIN nodes_src |->
                        [Checked |-> TRUE,
                         children |-> [k \in DOMAIN nodes_src[t].children |->
                                          [nodes_src[t].children[k] EXCEPT !.Checked = TRUE]]]]
    /\ UNCHANGED <<probeVars, takes, curTake, nodes_dst, transfers, created, raised, idleTake, codecVars>>

src_none_btn_callback ==
    /\ transfers < MaxTransfers
    /\ nodes_src' = [t \in DOMAIN nodes_src |->
                        [Checked |-> FALSE,
                         children |-> [k \in DOMAIN nodes_src[t].children |->
                                          [nodes_src[t].children[k] EXCEPT !.Checked = FALSE]]]]
    /\ UNCHANGED <<probeVars, takes, curTake, nodes_dst, transfers, created, raised, idleTake, codecVars>>

src_invert_btn_callback ==
    /\ transfers < MaxTransfers
    /\ nodes_src' = src_set_take_state(
                        [t \in DOMAIN nodes_src |->
                            [nodes_src[t] EXCEPT
                                !.children = [k \in DOMAIN @ |-> [@[k] EXCEPT !.Checked = ~@]]]])
    /\ UNCHANGED <<probeVars, takes, curTake, nodes_dst, transfers, created, raised, idleTake, codecVars>>

\* the user clicks the check box of destination take node t (no callback)
ClickDstTake(t) ==
    /\ transfers < MaxTransfers
    /\ nodes_dst' = [nodes_dst EXCEPT ![t].Checked = ~@]
    /\ UNCHANGED <<probeVars, takes, curTake, nodes_src, transfers, created, raised, idleTake, codecVars>>

dst_all_btn_callback ==
    /\ transfers < MaxTransfers
    /\ nodes_dst' = [t \in DOMAIN nodes_dst |-> [Checked |-> TRUE]]
    /\ UNCHANGED <<probeVars, takes, curTake, nodes_src, transfers, created, raised, idleTake, codecVars>>

dst_none_btn_callback ==
    /\ transfers < MaxTransfers
    /\ nodes_dst' = [t \in DOMAIN nodes_dst |-> [Checked |-> FALSE]]
    /\ UNCHANGED <<probeVars, takes, curTake, nodes_src, transfers, created, raised, idleTake, codecVars>>

dst_invert_btn_callback ==
    /\ transfers < MaxTransfers
    /\ nodes_dst' = [t \in DOMAIN nodes_dst |-> [Checked |-> ~nodes_dst[t].Checked]]
    /\ UNCHANGED <<probeVars, takes, curTake, nodes_src, transfers, created, raised, idleTake, codecVars>>

\* the checked layer nodes under checked take nodes, as <<take, layer index>>:
\* what a Transfer copies to every checked destination
SelectedLayers(src) ==
    UNION { { <<t, src[t].children[k].data>> :
                k \in { j \in 1..Len(src[t].children) : src[t].children[j].Checked } } :
            t \in { u \in DOMAIN src : src[u].Checked } }

NumSelected(src) == Cardinality(SelectedLayers(src))

\* the host as transfer_anim_layers finds it
HostNow ==
    [takes |-> takes, curTake |-> curTake, err |-> FALSE, log |-> << >>,
     unresolved |-> unresolved]

\* transfer_btn_callback: transfer_anim_layers, then reload_src_tree (not
\* reached when the transfer raised)
transfer_btn_callback ==
    /\ transfers < MaxTransfers
    /\ \A t \in Takes :
          nodes_dst[t].Checked => Len(takes[t].layers) + NumSelected(nodes_src) <= MaxLayers
    /\ LET h == transfer_anim_layers(HostNow, nodes_src, nodes_dst) IN
       /\ takes' = h.takes
       /\ curTake' = h.curTake
       /\ created' = h.log
       /\ raised' = h.err
       /\ nodes_src' = IF h.err THEN nodes_src ELSE reload_src_tree(h.takes)
    /\ transfers' = transfers + 1
    /\ idleTake' = \E t \in Takes : nodes_src[t].Checked /\ ~SomeChildChecked(nodes_src[t])
    /\ UNCHANGED <<probeVars, nodes_dst, codecVars>>

Next ==
    \/ \E t \in Takes : ClickSrcTake(t)
    \/ \E t \in Takes : \E k \in 1..MaxLayers : ClickSrcLayer(t, k)
    \/ src_all_btn_callback
    \/ src_none_btn_callback
    \/ src_invert_btn_callback
    \/ \E t \in Takes : ClickDstTake(t)
    \/ dst_all_btn_callback
    \/ dst_none_btn_callback
    \/ dst_invert_btn_callback
    \/ transfer_btn_callback

Spec == Init /\ [][Next]_vars

\* the same tool, started with the source check boxes standing in any way
SpecAnyMarks == InitAnyMarks /\ [][Next]_vars

\* the channels the host may fail to give an FCurve for on a new layer
UnresolvedChoices == { {"Cube.T.Y"}, {"Light.Intensity"} }

\* the tool on a host that gives no FCurve for one channel on the layers
\* CreateNewLayer makes
InitUnresolved ==
    /\ takes = SceneTakes
    /\ curTake = 1
    /\ nodes_src = reload_src_tree(takes)
    /\ nodes_dst = reload_dst_tree(takes)
    /\ transfers = 0
    /\ created = << >>
    /\ raised = FALSE
    /\ idleTake = FALSE
    /\ call = NoCall
    /\ unresolved \in UnresolvedChoices
    /\ InitIdleCodec

SpecUnresolved == InitUnresolved /\ [][Next]_vars

-----------------------------------------------------------------------------
(* The By-Name and Reload buttons.  Names are texts here: sequences of
   characters. *)

\* the characters of the names the scene uses
Chars(stem) ==
    CASE stem = "BaseAnimation" ->
             <<"B", "a", "s", "e", "A", "n", "i", "m", "a", "t", "i", "o", "n">>
      [] stem = "AnimLayer" -> <<"A", "n", "i", "m", "L", "a", "y", "e", "r">>
      [] stem = "A" -> <<"A">>
      [] stem = "B" -> <<"B">>
      [] stem = "C" -> <<"C">>
      [] stem = "T1" -> <<"T", "1">>
      [] stem = "T2" -> <<"T", "2">>

Digit(n) == <<"0", "1", "2", "3", "4", "5", "6", "7", "8", "9">>[n + 1]

\* the text of a layer name: the host writes the number it added to make the
\* name unique after a blank
NameText(name) ==
    Chars(name.stem) \o (IF name.no = 0 THEN << >> ELSE <<" ", Digit(name.no)>>)

\* str.lower() on one character
LowerChar(ch) ==
    CASE ch = "A" -> "a"
      [] ch = "B" -> "b"
      [] ch = "C" -> "c"
      [] ch = "L" -> "l"
      [] ch = "T" -> "t"
      [] OTHER -> ch

\* str.lower()
Lower(text) == [j \in 1..Len(text) |-> LowerChar(text[j])]

\* value.lower() in name.lower()
Contains(name, value) ==
    \E j \in 0..(Len(name) - Len(value)) :
        SubSeq(Lower(name), j + 1, j + Len(value)) = Lower(value)

\* the substrings a user enters in the By-Name box
TypedSubstrings == { << >>, <<"a">>, <<"B">>, <<"T", "1">>, <<"1">>, <<"x">> }

\* node.Name of a source tree node: the name its take or layer had when
\* reload_src_tree made the node
TakeNodeName(t) == Chars(takes[t].Name)

LayerNodeName(t, k) == NameText(takes[t].layers[nodes_src[t].children[k].data].Name)

\* src_by_name_btn_callback with a substring entered and Check (checked is
\* TRUE) or Uncheck (checked is FALSE) pressed: lines 396-407
src_by_name_btn_callback ==
    /\ transfers < MaxTransfers
    /\ \E value \in TypedSubstrings : \E checked \in BOOLEAN :
          nodes_src' = src_set_take_state(
              [t \in DOMAIN nodes_src |->
                  LET take_hit == Contains(TakeNodeName(t), value) IN
                  [Checked |-> IF take_hit THEN checked ELSE nodes_src[t].Checked,
                   children |->
                       [k \in DOMAIN nodes_src[t].children |->
                           [nodes_src[t].children[k] EXCEPT
                               !.Checked =
                                   IF take_hit \/ Contains(LayerNodeName(t, k), value)
                                   THEN checked ELSE @]]]])
    /\ UNCHANGED <<probeVars, takes, curTake, nodes_dst, transfers, created, raised,
                   idleTake, codecVars>>

\* reload_btn_callback: reload_trees
reload_btn_callback ==
    /\ transfers < MaxTransfers
    /\ nodes_src' = reload_src_tree(takes)
    /\ nodes_dst' = reload_dst_tree(takes)
    /\ UNCHANGED <<probeVars, takes, curTake, transfers, created, raised, idleTake,
                   codecVars>>

NextSelect ==
    \/ \E t \in Takes : ClickSrcTake(t)
    \/ \E t \in Takes : \E k \in 1..MaxLayers : ClickSrcLayer(t, k)
    \/ src_all_btn_callback
    \/ src_none_btn_callback
    \/ src_invert_btn_callback
    \/ src_by_name_btn_callback
    \/ reload_btn_callback
    \/ \E t \in Takes : ClickDstTake(t)
    \/ dst_all_btn_callback
    \/ dst_none_btn_callback
    \/ dst_invert_btn_callback
    \/ transfer_btn_callback

\* the tool with all its selection buttons
SpecSelect == Init /\ [][NextSelect]_vars

-----------------------------------------------------------------------------
(* The callbacks that change checked layers: rename, delete, mute, mode,
   rotation mode, weight, and the renaming of a tree node *)

is_BaseAnimation_layer_Never(layer) == FALSE

\* is_BaseAnimation_layer for the node of a layer: the layer's name is
\* "BaseAnimation" (for the node of a take the type test makes it False)
is_BaseAnimation_layer(layer) == layer.Name = BaseAnimationName

\* any([node.Checked for node in nl.nodes_src])
AnyChecked(src) ==
    \E t \in DOMAIN src : src[t].Checked \/ SomeChildChecked(src[t])

\* the loop `for node, values in nl.nodes_src.iteritems()` of the mute, mode,
\* rotation mode and weight callbacks: the attribute is set on the layer of
\* every checked layer node that is_BaseAnimation_layer does not hold of
SetOnChecked(scene_takes, src, attribute, value) ==
    [t \in DOMAIN scene_takes |->
        [scene_takes[t] EXCEPT !.layers =
            [i \in DOMAIN @ |->
                IF /\ \E k \in 1..Len(src[t].children) :
                         src[t].children[k].data = i /\ src[t].children[k].Checked
                   /\ ~is_BaseAnimation_layer(@[i])
                THEN [@[i] EXCEPT ![attribute] = value] ELSE @[i]]]]

\* the names a user types or picks
TypedNames == { [stem |-> "BaseAnimation", no |-> 0], [stem |-> "Z", no |-> 0] }

\* the values a user enters in the weight box; 101 is out of range
TypedWeights == {0, 100, 101}

LayerModes ==
    {"kFBLayerModeAdditive", "kFBLayerModeOverride", "kFBLayerModeOverridePassthrough"}

LayerRotationModes ==
    {"kFBLayerRotationModeEulerRotation", "kFBLayerRotationModeQuaternionRotation"}

\* mute_btn_callback with a state chosen in the menu
mute_btn_callback ==
    /\ \E state \in BOOLEAN :
          takes' = SetOnChecked(takes, nodes_src, "Mute", state)
    /\ UNCHANGED <<probeVars, curTake, nodes_src, nodes_dst, transfers, created, raised,
                   idleTake, codecVars>>

\* mode_btn_callback with a mode chosen in the menu
mode_btn_callback ==
    /\ \E mode \in LayerModes :
          takes' = SetOnChecked(takes, nodes_src, "LayerMode", mode)
    /\ UNCHANGED <<probeVars, curTake, nodes_src, nodes_dst, transfers, created, raised,
                   idleTake, codecVars>>

\* rotation_mode_btn_callback with a mode chosen in the menu
rotation_mode_btn_callback ==
    /\ \E mode \in LayerRotationModes :
          takes' = SetOnChecked(takes, nodes_src, "LayerRotationMode", mode)
    /\ UNCHANGED <<probeVars, curTake, nodes_src, nodes_dst, transfers, created, raised,
                   idleTake, codecVars>>

\* weight_btn_callback with a value entered and Ok pressed
weight_btn_callback ==
    /\ AnyChecked(nodes_src)
    /\ \E value \in TypedWeights :
          takes' = IF 0 <= value /\ value <= 100
                   THEN SetOnChecked(takes, nodes_src, "Weight", value)
                   ELSE takes
    /\ UNCHANGED <<probeVars, curTake, nodes_src, nodes_dst, transfers, created, raised,
                   idleTake, codecVars>>

\* lines 445-452: the layer nodes from child k of take node t on, in the
\* order of nl.nodes_src
RECURSIVE rename_checked(_, _, _, _, _)
rename_checked(h, src, t, k, new_name) ==
    IF t > Len(src) THEN h
    ELSE IF k > Len(src[t].children) THEN rename_checked(h, src, t + 1, 1, new_name)
    ELSE LET node == src[t].children[k] IN
         IF node.Checked /\ ~is_BaseAnimation_layer(h.takes[t].layers[node.data])
         THEN rename_checked(SetLayerName(h, t, node.data, new_name), src, t, k + 1, new_name)
         ELSE rename_checked(h, src, t, k + 1, new_name)

\* src_rename_btn_callback with a name entered and Ok pressed
src_rename_btn_callback ==
    /\ AnyChecked(nodes_src)
    /\ \E new_name \in TypedNames :
          takes' = rename_checked(HostNow, nodes_src, 1, 1, new_name).takes
    /\ nodes_src' = reload_src_tree(takes')
    /\ UNCHANGED <<probeVars, curTake, nodes_dst, transfers, created, raised, idleTake,
                   codecVars>>

\* the layers, by index, that the loop of src_del_btn_callback deletes from
\* take t: those of the checked layer nodes that is_BaseAnimation_layer does
\* not hold of
Doomed(scene_takes, src, t) ==
    { i \in 1..Len(scene_takes[t].layers) :
        /\ \E k \in 1..Len(src[t].children) :
              src[t].children[k].data = i /\ src[t].children[k].Checked
        /\ ~is_BaseAnimation_layer(scene_takes[t].layers[i]) }

\* some checked layer node of take t is one is_BaseAnimation_layer holds of
BaseChecked(scene_takes, src, t) ==
    \E k \in 1..Len(src[t].children) :
        /\ src[t].children[k].Checked
        /\ is_BaseAnimation_layer(scene_takes[t].layers[src[t].children[k].data])

\* the indices left of 1..n without those in gone, in order
RECURSIVE Survivors(_, _)
Survivors(n, gone) ==
    IF n = 0 THEN << >>
    ELSE IF n \in gone THEN Survivors(n - 1, gone)
    ELSE Append(Survivors(n - 1, gone), n)

\* take t after the loop of src_del_btn_callback, its selected layer being
\* the one at position cur: FBDelete() on the doomed layers, and
\* SetCurrentLayer(0) with ClearAllPropertiesOnCurrentLayer() where a base
\* layer node is checked
delete_checked(scene_takes, src, t, cur) ==
    LET left == Survivors(Len(scene_takes[t].layers), Doomed(scene_takes, src, t))
        kept == [n \in 1..Len(left) |-> scene_takes[t].layers[left[n]]]
    IN  IF BaseChecked(scene_takes, src, t)
        THEN [scene_takes[t] EXCEPT
                 !.layers = [kept EXCEPT ![1].curves = NoCurves],
                 !.cur = 1]
        ELSE [scene_takes[t] EXCEPT !.layers = kept, !.cur = cur]

\* the positions the selected layer of take t may have after the deletion:
\* its own new position when it is kept, any position when it was deleted
CurAfterDelete(scene_takes, src, t) ==
    LET left == Survivors(Len(scene_takes[t].layers), Doomed(scene_takes, src, t)) IN
    IF scene_takes[t].cur \in Doomed(scene_takes, src, t)
    THEN 1..Len(left)
    ELSE { n \in 1..Len(left) : left[n] = scene_takes[t].cur }

\* src_del_btn_callback: the loop, then reload_trees
src_del_btn_callback ==
    /\ \E cur \in [Takes -> 1..MaxLayers] :
          /\ \A t \in Takes : cur[t] \in CurAfterDelete(takes, nodes_src, t)
          /\ takes' = [t \in Takes |-> delete_checked(takes, nodes_src, t, cur[t])]
    /\ nodes_src' = reload_src_tree(takes')
    /\ nodes_dst' = reload_dst_tree(takes')
    /\ UNCHANGED <<probeVars, curTake, transfers, created, raised, idleTake, codecVars>>

\* take.Name = name: the host keeps the names of the takes distinct
SetTakeName(scene_takes, t, name) ==
    [scene_takes EXCEPT
        ![t].Name = UniqueName({ scene_takes[u].Name : u \in DOMAIN scene_takes \ {t} },
                               name)]

\* src_tree_changed_callback after the user renamed the node of take t
RenameSrcTakeNode(t) ==
    /\ \E name \in TypedNames :
          takes' = IF name # takes[t].Name THEN SetTakeName(takes, t, name) ELSE takes
    /\ UNCHANGED <<probeVars, curTake, nodes_src, nodes_dst, transfers, created, raised,
                   idleTake, codecVars>>

\* src_tree_changed_callback after the user renamed layer node k of take t
RenameSrcLayerNode(t, k) ==
    /\ k \in 1..Len(nodes_src[t].children)
    /\ \E name \in TypedNames :
          LET i == nodes_src[t].children[k].data IN
          takes' = IF name # takes[t].layers[i].Name
                      /\ ~is_BaseAnimation_layer(takes[t].layers[i])
                   THEN SetLayerName(HostNow, t, i, name).takes
                   ELSE takes
    /\ UNCHANGED <<probeVars, curTake, nodes_src, nodes_dst, transfers, created, raised,
                   idleTake, codecVars>>

\* a scene of two takes: T1 holds its base layer and, above it, a copy of a
\* base layer as Transfer leaves it; T2 holds its base layer only
LayerOpsTakes ==
    << [Name |-> [stem |-> "T1", no |-> 0], cur |-> 2,
        layers |->
          << Layer("BaseAnimation", "kFBLayerModeAdditive",
                   "kFBLayerRotationModeEulerRotation", 100,
                   <<K(0, 1)>>, << >>, << >>),
             [Layer("BaseAnimation", "kFBLayerModeOverride",
                    "kFBLayerRotationModeQuaternionRotation", 50,
                    << >>, <<K(0, 3)>>, << >>) EXCEPT !.Name.no = 1] >>],
       [Name |-> [stem |-> "T2", no |-> 0], cur |-> 1,
        layers |->
          << Layer("BaseAnimation", "kFBLayerModeAdditive",
                   "kFBLayerRotationModeEulerRotation", 100,
                   << >>, <<K(2, 1)>>, << >>) >>] >>

InitLayerOps ==
    /\ takes = LayerOpsTakes
    /\ curTake = 1
    /\ nodes_src = reload_src_tree(takes)
    /\ nodes_dst = reload_dst_tree(takes)
    /\ transfers = 0
    /\ created = << >>
    /\ raised = FALSE
    /\ idleTake = FALSE
    /\ call = NoCall
    /\ unresolved = {}
    /\ InitIdleCodec

NextLayerOps ==
    \/ \E t \in Takes : ClickSrcTake(t)
    \/ \E t \in Takes : \E k \in 1..MaxLayers : ClickSrcLayer(t, k)
    \/ src_all_btn_callback
    \/ src_none_btn_callback
    \/ src_invert_btn_callback
    \/ src_rename_btn_callback
    \/ src_del_btn_callback
    \/ mute_btn_callback
    \/ mode_btn_callback
    \/ rotation_mode_btn_callback
    \/ weight_btn_callback
    \/ \E t \in Takes : RenameSrcTakeNode(t)
    \/ \E t \in Takes : \E k \in 1..MaxLayers : RenameSrcLayerNode(t, k)

SpecLayerOps == InitLayerOps /\ [][NextLayerOps]_vars

-----------------------------------------------------------------------------
(* get_animated_components and get_serialized_fcurves called on a scene *)

\* what a channel may hold on the base layer of the sampled scenes
CurveChoices == { << >>, <<K(0, 1)>>, <<K(0, 2), K(2, 3)>> }

\* scenes of two takes: T1 with a base layer holding any of the choices on
\* each channel and a second layer keyed on Cube.T.X only, T2 with a base
\* layer keyed on Cube.T.Y only
CollectScenes ==
    { << [Name |-> "T1", cur |-> 1,
          layers |->
            << Layer("BaseAnimation", "kFBLayerModeAdditive",
                     "kFBLayerRotationModeEulerRotation", 100, x, y, i),
               Layer("A", "kFBLayerModeOverride",
                     "kFBLayerRotationModeQuaternionRotation", 50,
                     <<K(1, 4)>>, << >>, << >>) >>],
         [Name |-> "T2", cur |-> 1,
          layers |->
            << Layer("BaseAnimation", "kFBLayerModeAdditive",
                     "kFBLayerRotationModeEulerRotation", 100,
                     << >>, <<K(2, 1)>>, << >>) >>] >> :
        x \in CurveChoices, y \in CurveChoices, i \in CurveChoices }

InitCollect ==
    /\ takes \in CollectScenes
    /\ curTake = 1
    /\ nodes_src = reload_src_tree(takes)
    /\ nodes_dst = reload_dst_tree(takes)
    /\ transfers = 0
    /\ created = << >>
    /\ raised = FALSE
    /\ idleTake = FALSE
    /\ call = NoCall
    /\ unresolved = {}
    /\ InitIdleCodec

\* src_on_select_callback on the node of take t, lines 607-609
SelectSrcTake(t) ==
    /\ curTake' = t
    /\ UNCHANGED <<takes, nodes_src, nodes_dst, transfers, created, raised, idleTake,
                   call, unresolved, src_fcurve, codecVars>>

\* src_on_select_callback on layer node k under take node t, lines 610-615
SelectSrcLayer(t, k) ==
    /\ k \in 1..Len(nodes_src[t].children)
    /\ curTake' = t
    /\ takes' = SelectLayer(HostNow, t, nodes_src[t].children[k].data).takes
    /\ UNCHANGED <<nodes_src, nodes_dst, transfers, created, raised, idleTake,
                   call, unresolved, src_fcurve, codecVars>>

\* a call of get_animated_components()
ScanCall ==
    /\ call' = [fn |-> "get_animated_components", arg |-> "",
                ret |-> get_animated_components(HostNow), exc |-> FALSE]
    /\ UNCHANGED <<hostVars, unresolved, src_fcurve, codecVars>>

\* a call of get_serialized_fcurves(component); line 151 raises
\* AttributeError when the component has no AnimationNode
CollectCall(component) ==
    /\ call' = IF HasAnimationNode(component)
               THEN [fn |-> "get_serialized_fcurves", arg |-> component,
                     ret |-> get_serialized_fcurves(HostNow, component), exc |-> FALSE]
               ELSE [fn |-> "get_serialized_fcurves", arg |-> component,
                     ret |-> << >>, exc |-> TRUE]
    /\ UNCHANGED <<hostVars, unresolved, src_fcurve, codecVars>>

NextCollect ==
    \/ \E t \in Takes : SelectSrcTake(t)
    \/ \E t \in Takes : \E k \in 1..MaxLayers : SelectSrcLayer(t, k)
    \/ ScanCall
    \/ \E n \in 1..Len(Components) : CollectCall(Components[n])

SpecCollect == InitCollect /\ [][NextCollect]_vars

-----------------------------------------------------------------------------
(* Claims about deserialize_curve, checked under SpecCodec *)

\* Decode has passed line 115
Cleared == pc \in {"loop1", "loop2", "done", "failed"}

\* loop 1 has run to its end
Loop1Over == pc \in {"loop2", "done", "failed"}

\* the record that decided the key at the given time: the last one of that time
LastAt(recs, time) ==
    recs[CHOOSE n \in 1..Len(recs) :
            /\ recs[n].time = time
            /\ \A m \in (n + 1)..Len(recs) : recs[m].time # time]

MadeFrom(key, rec) ==
    /\ key.Time = rec.time
    /\ key.Value = rec.value
    /\ key.Interpolation = FBInterpolation_values[rec.interpolation + 1]
    /\ key.TangentConstantMode = FBTangentConstantMode_values[rec.constant_mode + 1]

\* C7: from the moment Decode has cleared the target curve, and so when it
\* ends, every key on the curve is made from one of the records (its time,
\* value, interpolation and constant mode are that record's), the curve holds
\* no more keys than there are records, and no key the curve held before
\* Decode is on it any more.
C7_DecodeReplacesContent ==
    Cleared =>
        /\ Len(fcurve) <= Len(key_data_list)
        /\ \A j \in 1..Len(fcurve) :
              /\ \E n \in 1..Len(key_data_list) : MadeFrom(fcurve[j], key_data_list[n])
              /\ \A m \in 1..Len(fcurve0) : fcurve[j] # fcurve0[m]

\* C7 witness: Decode ended on a curve that held keys before, one of them at
\* the time of a record, and the curve now holds keys.
C7_Witness ==
    /\ pc = "done"
    /\ Len(fcurve0) = 2
    /\ Len(fcurve) = 2
    /\ \E j \in 1..2 : HasKeyAt(fcurve, fcurve0[j].Time)

\* C8: once loop 1 is over no key has the TCB tangent mode; the key at a
\* record's time has the Break mode when the record stores TCB (integer 1)
\* and exactly the record's mode otherwise.
C8_NoTCBAfterDecode ==
    Loop1Over =>
        \A j \in 1..Len(fcurve) :
            LET stored == LastAt(key_data_list, fcurve[j].Time).tangent_mode IN
            /\ fcurve[j].TangentMode # "kFBTangentModeTCB"
            /\ stored = 1 => fcurve[j].TangentMode = "kFBTangentModeBreak"
            /\ stored # 1 => fcurve[j].TangentMode = FBTangentMode_values[stored + 1]

\* C8 witness: Decode ended with a key from a TCB record and a key from a
\* record of another mode.
C8_Witness ==
    /\ pc = "done"
    /\ Len(fcurve) = 2
    /\ Len(fcurve0) > 0
    /\ key_data_list[1].tangent_mode = 1
    /\ key_data_list[2].tangent_mode = 0

\* positions loop 2 has dealt with
Loop2Dealt ==
    IF pc = "done" THEN 1..Len(key_data_list)
    ELSE IF pc \in {"loop2", "failed"} THEN 1..(idx - 1)
    ELSE {}

InOpenBand(w) == 33330 < w /\ w < 33340

\* C9: for every position loop 2 has dealt with, the key's left weight is the
\* record's left weight exactly when that value is not strictly between
\* 0.3333 and 0.3334, and is the host default otherwise; the same holds for
\* the right weight, each decided by its own stored value.
C9_WeightsDecidedIndependently ==
    \A i \in Loop2Dealt :
        LET rec == key_data_list[i]
            key == fcurve[i]
        IN  /\ key.LeftTangentWeight =
                   IF InOpenBand(rec.left_weight) THEN HostDefaultWeight ELSE rec.left_weight
            /\ key.RightTangentWeight =
                   IF InOpenBand(rec.right_weight) THEN HostDefaultWeight ELSE rec.right_weight

\* C9 witness: Decode ended; one record has a default left and a non-default
\* right weight, another a non-default left and a default right weight.
C9_Witness ==
    /\ pc = "done"
    /\ Len(key_data_list) = 2
    /\ InOpenBand(key_data_list[1].left_weight)
    /\ ~InOpenBand(key_data_list[1].right_weight)
    /\ ~InOpenBand(key_data_list[2].left_weight)
    /\ InOpenBand(key_data_list[2].right_weight)
    /\ key_data_list[2].right_weight # HostDefaultWeight

InHalfOpenBand(w) == 33330 <= w /\ w < 33340

\* C10 as stated: after Decode every weight stored in [0.3333, 0.3334), 0.3333
\* included, is left unset (the key keeps the host default).
C10_HalfOpenBandUnset ==
    pc = "done" =>
        \A i \in 1..Len(key_data_list) :
            /\ InHalfOpenBand(key_data_list[i].left_weight)
                  => fcurve[i].LeftTangentWeight = HostDefaultWeight
            /\ InHalfOpenBand(key_data_list[i].right_weight)
                  => fcurve[i].RightTangentWeight = HostDefaultWeight

\* C10 amended: after Decode every weight stored strictly between 0.3333 and
\* 0.3334 is left unset, and a weight stored as exactly 0.3333 is written to
\* the key.
C10_OpenBandUnset ==
    pc = "done" =>
        \A i \in 1..Len(key_data_list) :
            LET lw == key_data_list[i].left_weight
                rw == key_data_list[i].right_weight
            IN  /\ (33330 < lw /\ lw < 33340) => fcurve[i].LeftTangentWeight = HostDefaultWeight
                /\ (33330 < rw /\ rw < 33340) => fcurve[i].RightTangentWeight = HostDefaultWeight
                /\ lw = 33330 => fcurve[i].LeftTangentWeight = 33330
                /\ rw = 33330 => fcurve[i].RightTangentWeight = 33330

\* C10 witness: Decode ended on records of which one stores exactly 0.3333
\* and one stores a value inside the band other than the host default.
C10_Witness ==
    /\ pc = "done"
    /\ \E i \in 1..Len(key_data_list) : key_data_list[i].left_weight = 33330
    /\ \E i \in 1..Len(key_data_list) : key_data_list[i].right_weight = 33331

-----------------------------------------------------------------------------
(* Claims about transfer_anim_layers.  A step is a Transfer run exactly when
   it raises the run count; the unprimed variables are the scene and the
   check marks the run starts from, the primed ones what it leaves. *)

IsTransfer == transfers' = transfers + 1

\* the destination takes of the run
DstTakes == { d \in Takes : nodes_dst[d].Checked }

\* the entries the run logged
Made == { created'[n] : n \in 1..Len(created') }

\* the entries logged for source layer sl = <<take, index>> on destination d
MadeFor(sl, d) ==
    { e \in Made : e.dst = d /\ e.src_take = sl[1] /\ e.src_index = sl[2] }

\* curve new repeats curve old, up to the tangent downgrade and the
\* default-weight rule
CurveRepeats(old, new) ==
    /\ Len(new) = Len(old)
    /\ \A j \in 1..Len(old) :
          /\ new[j].Time = old[j].Time
          /\ new[j].Value = old[j].Value
          /\ new[j].Interpolation = old[j].Interpolation
          /\ new[j].TangentConstantMode = old[j].TangentConstantMode
          /\ new[j].LeftDerivative = old[j].LeftDerivative
          /\ new[j].RightDerivative = old[j].RightDerivative
          /\ new[j].TangentMode =
                IF old[j].TangentMode = "kFBTangentModeTCB"
                THEN "kFBTangentModeBreak" ELSE old[j].TangentMode
          /\ new[j].LeftTangentWeight =
                IF InOpenBand(old[j].LeftTangentWeight)
                THEN HostDefaultWeight ELSE old[j].LeftTangentWeight
          /\ new[j].RightTangentWeight =
                IF InOpenBand(old[j].RightTangentWeight)
                THEN HostDefaultWeight ELSE old[j].RightTangentWeight

\* C1: a Transfer run makes, for every selected source layer L and every
\* destination take, a layer that holds on every channel keyed on L a curve
\* with as many keys as L's, with the same times, values, interpolation,
\* constant mode and derivatives (the tangent mode downgraded from TCB to
\* Break, a default weight left at the host default).
C1_CurvesCopied ==
    [][IsTransfer =>
        \A sl \in SelectedLayers(nodes_src) : \A d \in DstTakes :
            \E e \in MadeFor(sl, d) :
                \A c \in Leaves :
                    LET old == takes[sl[1]].layers[sl[2]].curves[c]
                        new == takes'[d].layers[e.index].curves[c]
                    IN  Len(old) > 0 => CurveRepeats(old, new)
    ]_vars

\* C1 witness: a Transfer run copied T1's BaseAnimation layer (two keys on
\* Cube.T.X, one of them TCB, and a key on Light.Intensity) and T1's layer B
\* onto T2.
C1_Witness ==
    /\ transfers = 1
    /\ ~raised
    /\ \E n, m \in 1..Len(created) :
          /\ created[n].dst = 2 /\ created[n].src_take = 1 /\ created[n].src_index = 1
          /\ Len(takes[2].layers[created[n].index].curves["Cube.T.X"]) = 2
          /\ Len(takes[2].layers[created[n].index].curves["Light.Intensity"]) = 1
          /\ created[m].dst = 2 /\ created[m].src_take = 1 /\ created[m].src_index = 3
          /\ Len(takes[2].layers[created[m].index].curves["Cube.T.Y"]) = 2

\* C2: on every destination take a Transfer run leaves the layers the take
\* had where they were and puts each new layer above them; two new layers
\* made for layers of the same source take stand in the order those layers
\* have in the source take.
C2_OrderKept ==
    [][IsTransfer =>
        \A d \in DstTakes :
            /\ \A i \in 1..Len(takes[d].layers) :
                  takes'[d].layers[i].Name = takes[d].layers[i].Name
            /\ \A sl \in SelectedLayers(nodes_src) : MadeFor(sl, d) # {}
            /\ \A e \in Made : e.dst = d => e.index > Len(takes[d].layers)
            /\ \A e1, e2 \in Made :
                  (e1.dst = d /\ e2.dst = d /\ e1.src_take = e2.src_take)
                      => (e1.src_index < e2.src_index <=> e1.index < e2.index)
    ]_vars

\* C2 witness: with layers B and C of T1 = [BaseAnimation, A, B, C] selected,
\* a Transfer run onto T2 = [BaseAnimation] left T2 = [BaseAnimation, B, C].
C2_Witness ==
    /\ transfers = 1
    /\ Len(created) = 2
    /\ \A n \in 1..2 : created[n].dst = 2
    /\ { created[n].src_index : n \in 1..2 } = {3, 4}
    /\ Len(takes[2].layers) = 3
    /\ takes[2].layers[1].Name = BaseAnimationName
    /\ takes[2].layers[2].Name = [stem |-> "B", no |-> 0]
    /\ takes[2].layers[3].Name = [stem |-> "C", no |-> 0]

\* the run's only source take is s, with all of its four layers selected, and
\* its only destination is another take d that holds its base layer only
AllFourOntoBase(s, d) ==
    /\ IsTransfer
    /\ s # d
    /\ DstTakes = {d}
    /\ Len(takes[d].layers) = 1
    /\ Len(takes[s].layers) = 4
    /\ SelectedLayers(nodes_src) = { <<s, i>> : i \in 1..4 }

\* layer new is the copy of layer src: its mode, rotation mode, weight and
\* curves are src's, its name is src's up to the number the host adds
CopyOf(src, new) ==
    /\ new.Name.stem = src.Name.stem
    /\ new.LayerMode = src.LayerMode
    /\ new.LayerRotationMode = src.LayerRotationMode
    /\ new.Weight = src.Weight
    /\ \A c \in Leaves : CurveRepeats(src.curves[c], new.curves[c])

\* C3 as stated: with all of [Base, A, B, C] selected, Transfer onto a take
\* holding only its base layer leaves that take with the four layers
\* [Base(existing), A, B, C].
C3_StackIsBaseABC ==
    [][\A s, d \in Takes :
        AllFourOntoBase(s, d) =>
            /\ Len(takes'[d].layers) = 4
            /\ takes'[d].layers[1] = takes[d].layers[1]
            /\ \A i \in 2..4 : CopyOf(takes[s].layers[i], takes'[d].layers[i])
    ]_vars

\* C3 amended: with all of [Base, A, B, C] selected, Transfer onto a take
\* holding only its base layer leaves that take with five layers, bottom to
\* top: its own base layer, a copy of the source's base layer, and copies of
\* A, B and C.
C3_StackIsBaseBaseABC ==
    [][\A s, d \in Takes :
        AllFourOntoBase(s, d) =>
            /\ Len(takes'[d].layers) = 5
            /\ takes'[d].layers[1] = takes[d].layers[1]
            /\ \A i \in 1..4 : CopyOf(takes[s].layers[i], takes'[d].layers[i + 1])
    ]_vars

\* C3 witness: the first Transfer run copied all four layers of T1 onto T2,
\* which held its base layer only.
C3_Witness ==
    /\ transfers = 1
    /\ Len(created) = 4
    /\ \A n \in 1..4 : created[n].dst = 2 /\ created[n].src_take = 1
    /\ Len(takes[1].layers) = 4
    /\ Len(takes[2].layers) = 5

\* C4: every layer a Transfer run makes has the mode, the rotation mode and
\* the weight of its source layer; its name is the source layer's name when
\* no layer below it on the destination take has that name, and otherwise a
\* name of the same stem that no layer below it has.
C4_AttributesCopied ==
    [][IsTransfer =>
        \A e \in Made :
            LET src == takes[e.src_take].layers[e.src_index]
                new == takes'[e.dst].layers[e.index]
                below == { takes'[e.dst].layers[i].Name : i \in 1..(e.index - 1) }
            IN  /\ new.LayerMode = src.LayerMode
                /\ new.LayerRotationMode = src.LayerRotationMode
                /\ new.Weight = src.Weight
                /\ new.Name.stem = src.Name.stem
                /\ new.Name \notin below
                /\ src.Name \notin below => new.Name = src.Name
    ]_vars

\* C4 witness: a Transfer run copied T1's layer A (Override, quaternion
\* rotation, weight 50) onto T2 under its own name and onto T1 itself, where
\* the host changed the name.
C4_Witness ==
    /\ transfers >= 1
    /\ \E n, m \in 1..Len(created) :
          /\ created[n].src_take = 1 /\ created[n].src_index = 2 /\ created[n].dst = 2
          /\ takes[2].layers[created[n].index].Name = [stem |-> "A", no |-> 0]
          /\ takes[2].layers[created[n].index].Weight = 50
          /\ takes[2].layers[created[n].index].LayerMode = "kFBLayerModeOverride"
          /\ created[m].src_take = 1 /\ created[m].src_index = 2 /\ created[m].dst = 1
          /\ takes[1].layers[created[m].index].Name = [stem |-> "A", no |-> 1]

\* C5: a Transfer run adds to every destination take exactly one layer per
\* selected source layer, the base layer included, whatever names the take's
\* layers have, and adds none to any other take.
C5_OneLayerPerSelected ==
    [][IsTransfer =>
        \A d \in Takes :
            IF d \in DstTakes
            THEN /\ Len(takes'[d].layers) =
                        Len(takes[d].layers) + Cardinality(SelectedLayers(nodes_src))
                 /\ \A sl \in SelectedLayers(nodes_src) : Cardinality(MadeFor(sl, d)) = 1
            ELSE Len(takes'[d].layers) = Len(takes[d].layers)
    ]_vars

\* C5 witness: the same Transfer (T1's BaseAnimation and A onto T2) ran
\* twice: T2 holds its own base layer and two copies of each.
C5_Witness ==
    /\ transfers = 2
    /\ Len(created) = 2
    /\ \A n \in 1..2 : created[n].dst = 2 /\ created[n].src_take = 1
    /\ { created[n].src_index : n \in 1..2 } = {1, 2}
    /\ Len(takes[2].layers) = 5
    /\ takes[2].layers[2].Name = [stem |-> "BaseAnimation", no |-> 1]
    /\ takes[2].layers[3].Name = [stem |-> "A", no |-> 0]
    /\ takes[2].layers[4].Name = [stem |-> "BaseAnimation", no |-> 2]
    /\ takes[2].layers[5].Name = [stem |-> "A", no |-> 1]

\* the take nodes that are checked while none of their layer nodes is
IdleTakes == { t \in Takes : nodes_src[t].Checked /\ ~SomeChildChecked(nodes_src[t]) }

\* C6: a Transfer run that finds a take node checked with none of its layer
\* nodes checked is not left by an exception, makes no layer for any layer
\* of that take, leaves every layer that existed as it was and adds to a
\* destination take only the layers selected under the other take nodes.
C6_IdleTakeAddsNothing ==
    [][(IsTransfer /\ IdleTakes # {}) =>
        /\ ~raised'
        /\ \A e \in Made : e.src_take \notin IdleTakes
        /\ \A d \in Takes :
              /\ SubSeq(takes'[d].layers, 1, Len(takes[d].layers)) = takes[d].layers
              /\ Len(takes'[d].layers) =
                    Len(takes[d].layers)
                    + (IF d \in DstTakes
                       THEN Cardinality({ sl \in SelectedLayers(nodes_src) :
                                            sl[1] \notin IdleTakes })
                       ELSE 0)
    ]_vars

\* C6 witness: a Transfer run found a take node checked with no layer node
\* checked and copied a layer of the other take onto two destination takes.
C6_Witness ==
    /\ transfers = 1
    /\ idleTake
    /\ ~raised
    /\ Len(created) = 2
    /\ created[1].dst # created[2].dst

-----------------------------------------------------------------------------
(* Claims about serialize_curve and its round trip through deserialize_curve,
   checked under SpecCodec *)

\* the records of the Decode in progress are those serialize_curve made of
\* src_fcurve
FromEncode == pc # "encode" /\ (src_fcurve # << >> \/ key_data_list = << >>)

\* no key of the curve has the TCB tangent mode or a weight that
\* tangent_weight_is_default takes for the default
Supported(keys) ==
    \A j \in 1..Len(keys) :
        /\ keys[j].TangentMode # "kFBTangentModeTCB"
        /\ ~InOpenBand(keys[j].LeftTangentWeight)
        /\ ~InOpenBand(keys[j].RightTangentWeight)

\* C11: Decode of the records Encode made of a curve without TCB keys and
\* without near-default weights is never left by an exception and ends, on
\* any target curve, with the target holding exactly the keys of the encoded
\* curve: as many, at the same times in the same order, every field equal.
C11_RoundTrip ==
    (FromEncode /\ Supported(src_fcurve)) =>
        /\ pc # "failed"
        /\ pc = "done" =>
              /\ Len(fcurve) = Len(src_fcurve)
              /\ \A j \in 1..Len(src_fcurve) : fcurve[j] = src_fcurve[j]

\* C11 witness: a two-key curve, one key with the Auto and one with the
\* Break tangent mode, none of its weights near the default, was encoded and
\* decoded onto a target that held two other keys.
C11_Witness ==
    /\ pc = "done"
    /\ Len(fcurve0) = 2
    /\ Len(src_fcurve) = 2
    /\ Supported(src_fcurve)
    /\ src_fcurve[1].TangentMode = "kFBTangentModeAuto"
    /\ src_fcurve[2].TangentMode = "kFBTangentModeBreak"
    /\ fcurve = src_fcurve

\* the records are in non-decreasing order of time
TimeOrdered(recs) == \A j \in 1..(Len(recs) - 1) : recs[j].time <= recs[j + 1].time

\* C12 as stated: given records that are not ordered by time, Decode does
\* not end normally and, once it has cleared the target, puts no key on it.
C12_UnorderedRecordsRejected ==
    ~TimeOrdered(key_data_list) =>
        /\ pc # "done"
        /\ Cleared => fcurve = << >>

\* record rec carries the fields of key unchanged
Carries(rec, key) ==
    /\ rec.time = key.Time
    /\ rec.value = key.Value
    /\ FBInterpolation_values[rec.interpolation + 1] = key.Interpolation
    /\ FBTangentMode_values[rec.tangent_mode + 1] = key.TangentMode
    /\ FBTangentConstantMode_values[rec.constant_mode + 1] = key.TangentConstantMode
    /\ rec.left_derivative = key.LeftDerivative
    /\ rec.right_derivative = key.RightDerivative
    /\ rec.left_weight = key.LeftTangentWeight
    /\ rec.right_weight = key.RightTangentWeight

\* C16: a call of Encode returns; its result has one record per key of the
\* curve, in the order of the keys, each carrying its key's time, value,
\* interpolation, tangent mode, constant mode, derivatives and weights; the
\* curve is afterwards what it was.
C16_EncodeSnapshotsCurve ==
    [][pc = "encode" =>
        /\ pc' = "start"
        /\ src_fcurve' = src_fcurve
        /\ Len(key_data_list') = Len(src_fcurve)
        /\ \A j \in 1..Len(src_fcurve) : Carries(key_data_list'[j], src_fcurve[j])
    ]_vars

\* C16 witness: Encode has returned the two records of a two-key curve whose
\* first key has the TCB mode and whose second has differing weights near
\* the default.
C16_Witness ==
    /\ pc = "start"
    /\ Len(src_fcurve) = 2
    /\ Len(key_data_list) = 2
    /\ key_data_list[1].tangent_mode = 1
    /\ key_data_list[2].left_weight = 33339
    /\ key_data_list[2].right_weight = 33331

\* the step sets a derivative or a weight of some key: a key that stays on
\* the curve changes in one of the four, or a key comes onto the curve with
\* one of them off the value KeyAdd gives
TangentsTouched ==
    \E j \in 1..Len(fcurve') :
        LET new == fcurve'[j]
            old == IF HasKeyAt(fcurve, new.Time)
                   THEN fcurve[KeyPos(fcurve, new.Time)]
                   ELSE NewKey(new.Time, new.Value)
        IN  \/ new.LeftDerivative # old.LeftDerivative
            \/ new.RightDerivative # old.RightDerivative
            \/ new.LeftTangentWeight # old.LeftTangentWeight
            \/ new.RightTangentWeight # old.RightTangentWeight

\* every record has its key on the curve, with the interpolation, tangent
\* mode (TCB downgraded) and constant mode of the last record of that time
AllRecordsInserted ==
    \A n \in 1..Len(key_data_list) :
        LET rec == LastAt(key_data_list, key_data_list[n].time) IN
        \E j \in 1..Len(fcurve) :
            /\ MadeFrom(fcurve[j], rec)
            /\ fcurve[j].TangentMode =
                  IF rec.tangent_mode = 1 THEN "kFBTangentModeBreak"
                  ELSE FBTangentMode_values[rec.tangent_mode + 1]

\* C20: a step of Decode that sets a derivative or a weight on a key starts
\* from a curve on which every record's key has been inserted and given its
\* interpolation, tangent mode and constant mode.
C20_TangentsAfterAllKeys ==
    [][(Cleared /\ TangentsTouched) => AllRecordsInserted]_vars

\* C20 witness: with two records at different times, loop 2 has set a
\* derivative on the first key and not yet dealt with the second.
C20_Witness ==
    /\ pc = "loop2"
    /\ idx = 2
    /\ Len(key_data_list) = 2
    /\ Len(fcurve) = 2
    /\ fcurve[1].LeftDerivative # 0
    /\ fcurve[2].LeftDerivative = 0
    /\ key_data_list[2].left_derivative # 0

-----------------------------------------------------------------------------
(* Claims about get_serialized_fcurves and get_animated_components, checked
   under SpecCollect.  A step is a call when it sets call; the scene is the
   same before and after it. *)

\* the leaf channels in the hierarchy of a component
ChannelsOf(component) ==
    CASE component = "Cube" -> {"Cube.T.X", "Cube.T.Y"}
      [] component = "Light" -> {"Light.Intensity"}
      [] OTHER -> {}

\* the keys channel c holds on the active layer of the active take
ActiveCurve(c) == takes[curTake].layers[takes[curTake].cur].curves[c]

\* the step is a call of get_serialized_fcurves
IsCollect == call' # call /\ call'.fn = "get_serialized_fcurves"

\* the step is a call of get_animated_components
IsScan == call' # call /\ call'.fn = "get_animated_components"

\* C13: no channel whose curve has no key on the active layer is a key of
\* the mapping a call of get_serialized_fcurves returns, whatever the
\* component.
C13_NoEmptyChannelCollected ==
    [][(IsCollect /\ ~call'.exc) =>
        \A c \in DOMAIN call'.ret : c \in Leaves /\ Len(ActiveCurve(c)) > 0
    ]_vars

\* C13 witness: get_serialized_fcurves was called on the Cube while one of
\* its two channels had keys and the other had none, and returned the keyed
\* one only.
C13_Witness ==
    /\ call.fn = "get_serialized_fcurves"
    /\ call.arg = "Cube"
    /\ DOMAIN call.ret = {"Cube.T.Y"}
    /\ ActiveCurve("Cube.T.X") = << >>

\* C14: a call of get_serialized_fcurves on a component that has a root
\* channel returns, and the mapping it returns has every channel of the
\* component that holds a key on the active layer, at whatever depth, mapped
\* to one record per key of that channel's curve, each carrying its key.
C14_CollectComplete ==
    [][(IsCollect /\ HasAnimationNode(call'.arg)) =>
        /\ ~call'.exc
        /\ \A c \in ChannelsOf(call'.arg) :
              Len(ActiveCurve(c)) > 0 =>
                  /\ c \in DOMAIN call'.ret
                  /\ Len(call'.ret[c]) = Len(ActiveCurve(c))
                  /\ \A j \in 1..Len(ActiveCurve(c)) :
                        Carries(call'.ret[c][j], ActiveCurve(c)[j])
    ]_vars

\* C14 witness: get_serialized_fcurves was called on the Cube with both of
\* its channels, two levels below the root, keyed, one of them with two keys.
C14_Witness ==
    /\ call.fn = "get_serialized_fcurves"
    /\ call.arg = "Cube"
    /\ DOMAIN call.ret = {"Cube.T.X", "Cube.T.Y"}
    /\ Len(call.ret["Cube.T.X"]) = 2
    /\ Len(call.ret["Cube.T.Y"]) = 1

\* C15: a call of get_animated_components returns without an exception a
\* list that holds, once each, exactly the components that have a root
\* channel and a channel with a key on the active layer; the component
\* without a root channel is not in it and the components after it are
\* still looked at.
C15_ScanExact ==
    [][IsScan =>
        /\ ~call'.exc
        /\ { call'.ret[n] : n \in 1..Len(call'.ret) } =
              { Components[n] : n \in
                  { m \in 1..Len(Components) :
                      /\ HasAnimationNode(Components[m])
                      /\ \E c \in ChannelsOf(Components[m]) : Len(ActiveCurve(c)) > 0 } }
        /\ \A n, m \in 1..Len(call'.ret) : call'.ret[n] = call'.ret[m] => n = m
    ]_vars

\* C15 witness: with the base layer active, keyed on the Light only, and
\* another layer keyed on the Cube, get_animated_components returned the
\* Light, which stands after the component without a root channel.
C15_Witness ==
    /\ call.fn = "get_animated_components"
    /\ call.ret = <<"Light">>
    /\ curTake = 1
    /\ takes[curTake].cur = 1
    /\ Len(takes[curTake].layers[2].curves["Cube.T.X"]) > 0
    /\ Len(ActiveCurve("Light.Intensity")) > 0
    /\ "Note" \in { Components[n] : n \in 1..Len(Components) }

-----------------------------------------------------------------------------
(* Claims about a Transfer during which the host raises, checked under
   SpecUnresolved *)

\* channel c is keyed on source layer sl = <<take, index>>
Keyed(sl, c) == Len(takes[sl[1]].layers[sl[2]].curves[c]) > 0

\* C17 as stated: when the host resolves no curve for a channel on the
\* destination, the Transfer run still returns normally, makes a layer for
\* every selected source layer on every destination take and writes on it
\* every other keyed channel.
C17_OtherChannelsStillWritten ==
    [][IsTransfer =>
        /\ ~raised'
        /\ \A sl \in SelectedLayers(nodes_src) : \A d \in DstTakes :
              \E e \in MadeFor(sl, d) :
                  \A c \in Leaves \ unresolved :
                      Keyed(sl, c) =>
                          CurveRepeats(takes[sl[1]].layers[sl[2]].curves[c],
                                       takes'[d].layers[e.index].curves[c])
    ]_vars

\* the layer logged by entry e has every keyed channel of its source layer
\* written
FullyWritten(e) ==
    \A c \in Leaves :
        Keyed(<<e.src_take, e.src_index>>, c) =>
            CurveRepeats(takes[e.src_take].layers[e.src_index].curves[c],
                         takes'[e.dst].layers[e.index].curves[c])

\* the layer logged by entry e has the keyed channels that come before the
\* first unresolved keyed one written, and that one and those after it empty
WrittenUpToFailure(e) ==
    \E f \in 1..Len(AnimNodeOrder) :
        /\ AnimNodeOrder[f] \in unresolved
        /\ Keyed(<<e.src_take, e.src_index>>, AnimNodeOrder[f])
        /\ \A n \in 1..Len(AnimNodeOrder) :
              LET c == AnimNodeOrder[n]
                  old == takes[e.src_take].layers[e.src_index].curves[c]
                  new == takes'[e.dst].layers[e.index].curves[c]
              IN  IF n < f /\ Len(old) > 0 THEN CurveRepeats(old, new)
                  ELSE new = << >>

\* C18: a Transfer run either returns normally, having made and fully
\* written one layer per selected source layer on every destination take,
\* or is left by an exception; then every layer the takes had is as it was,
\* every layer made before the failing one is in place and fully written,
\* the failing layer is in place with the channels written that came before
\* the failing one, and no take holds any layer made after it.
C18_StopsAtFirstError ==
    [][IsTransfer =>
        /\ \A d \in Takes :
              /\ SubSeq(takes'[d].layers, 1, Len(takes[d].layers)) = takes[d].layers
              /\ Len(takes'[d].layers) =
                    Len(takes[d].layers) + Cardinality({ e \in Made : e.dst = d })
        /\ Cardinality(Made) = Len(created')
        /\ IF raised'
           THEN /\ Len(created') > 0
                /\ \A n \in 1..(Len(created') - 1) : FullyWritten(created'[n])
                /\ WrittenUpToFailure(created'[Len(created')])
           ELSE /\ \A e \in Made : FullyWritten(e)
                /\ \A sl \in SelectedLayers(nodes_src) : \A d \in DstTakes :
                      Cardinality(MadeFor(sl, d)) = 1
    ]_vars

\* C18 witness: a Transfer run of T1's BaseAnimation, B and C onto T2 was
\* left by an exception after it had made and written the copy of
\* BaseAnimation and made the copy of B, on which Cube.T.X is written and
\* Cube.T.Y is not; no copy of C was made.
C18_Witness ==
    /\ transfers = 1
    /\ raised
    /\ unresolved = {"Cube.T.Y"}
    /\ SelectedLayers(nodes_src) = {<<1, 1>>, <<1, 3>>, <<1, 4>>}
    /\ Len(created) = 2
    /\ created[1].src_take = 1 /\ created[1].src_index = 1 /\ created[1].dst = 2
    /\ created[2].src_take = 1 /\ created[2].src_index = 3 /\ created[2].dst = 2
    /\ Len(takes[2].layers) = 3
    /\ Len(takes[2].layers[2].curves["Cube.T.X"]) = 2
    /\ Len(takes[2].layers[3].curves["Cube.T.X"]) = 1
    /\ takes[2].layers[3].curves["Cube.T.Y"] = << >>

-----------------------------------------------------------------------------
(* Claims about the callbacks that change checked layers, checked under
   SpecLayerOps *)

\* C19: no step of the rename, delete, mute, mode, rotation mode and weight
\* callbacks or of the renaming of a tree node removes the bottom layer of a
\* take or changes its name, mute flag, mode, rotation mode or weight; its
\* curves stay as they are or, by a delete, are all left without keys.
C19_BaseLayerProtected ==
    [][\A t \in Takes :
        /\ Len(takes') = Len(takes)
        /\ Len(takes'[t].layers) >= 1
        /\ takes'[t].layers[1].Name = takes[t].layers[1].Name
        /\ takes'[t].layers[1].Name = BaseAnimationName
        /\ takes'[t].layers[1].Mute = takes[t].layers[1].Mute
        /\ takes'[t].layers[1].LayerMode = takes[t].layers[1].LayerMode
        /\ takes'[t].layers[1].LayerRotationMode = takes[t].layers[1].LayerRotationMode
        /\ takes'[t].layers[1].Weight = takes[t].layers[1].Weight
        /\ \/ takes'[t].layers[1].curves = takes[t].layers[1].curves
           \/ takes'[t].layers[1].curves = NoCurves
    ]_vars

\* C19 witness: T1's base layer and the layer above it were checked and
\* deleted: the layer above is gone, the base layer is there without keys
\* and with its attributes, and T2's base layer still has its keys; the
\* node of take T2 had been renamed to Z before.
C19_Witness ==
    /\ Len(takes[1].layers) = 1
    /\ takes[1].layers[1].Name = BaseAnimationName
    /\ takes[1].layers[1].curves = NoCurves
    /\ takes[1].layers[1].Weight = 100
    /\ ~takes[1].layers[1].Mute
    /\ Len(takes[2].layers[1].curves["Cube.T.Y"]) = 1
    /\ takes[2].Name = [stem |-> "Z", no |-> 0]

-----------------------------------------------------------------------------
(* Claim about deserialize_curve given records of equal times, checked under
   SpecCodec *)

\* key carries the derivatives of rec, and its weights where
\* tangent_weight_is_default does not take them for the default
TangentsFrom(key, rec) ==
    /\ key.LeftDerivative = rec.left_derivative
    /\ key.RightDerivative = rec.right_derivative
    /\ ~tangent_weight_is_default(rec.left_weight) =>
           key.LeftTangentWeight = rec.left_weight
    /\ ~tangent_weight_is_default(rec.right_weight) =>
           key.RightTangentWeight = rec.right_weight

\* C24 as stated: given records in non-decreasing order of time, adjacent
\* records of equal time included, Decode is not left by an exception and
\* ends with one key per record on the curve, key i made from record i and
\* carrying the derivatives and weights of record i.
C24_NonDecreasingRecordsDecoded ==
    TimeOrdered(key_data_list) =>
        /\ pc # "failed"
        /\ pc = "done" =>
              /\ Len(fcurve) = Len(key_data_list)
              /\ \A i \in 1..Len(key_data_list) :
                    /\ MadeFrom(fcurve[i], key_data_list[i])
                    /\ TangentsFrom(fcurve[i], key_data_list[i])

-----------------------------------------------------------------------------
(* Claims about what a Transfer run writes and what it reads, checked under
   Spec *)

\* C21: a Transfer run leaves every layer that was in the scene before it,
\* on every take, with the same attributes and the same curves; where it
\* made layers, the take it leaves current is a destination take and the
\* layer left selected on every destination take is one the run made.
C21_OnlyNewLayersWritten ==
    [][IsTransfer =>
        /\ \A t \in Takes :
              /\ Len(takes'[t].layers) >= Len(takes[t].layers)
              /\ \A i \in 1..Len(takes[t].layers) :
                    takes'[t].layers[i] = takes[t].layers[i]
        /\ (DstTakes # {} /\ SelectedLayers(nodes_src) # {}) =>
              /\ curTake' \in DstTakes
              /\ \A d \in DstTakes : takes'[d].cur > Len(takes[d].layers)
    ]_vars

\* C21 witness: a Transfer run copied T1's layer B onto T1 itself: the new
\* layer on top of T1 holds B's keys and the four layers below are as the
\* scene had them.
C21_Witness ==
    /\ transfers = 1
    /\ Len(created) = 1
    /\ created[1].dst = 1 /\ created[1].src_take = 1 /\ created[1].src_index = 3
    /\ Len(takes[1].layers) = 5
    /\ Len(takes[1].layers[5].curves["Cube.T.Y"]) = 2
    /\ SubSeq(takes[1].layers, 1, 4) = SceneTakes[1].layers
    /\ takes[2] = SceneTakes[2]

\* C23: every layer a Transfer run makes is made for a layer that was
\* selected in the source tree and was in the scene when the run began,
\* never for a layer the run made, and holds on every channel the curve that
\* source layer held when the run began (up to the tangent downgrade and the
\* default-weight rule), no keys where it held none; this also where the
\* source take is a destination and has received layers earlier in the run.
C23_SnapshotReplayed ==
    [][IsTransfer =>
        \A e \in Made :
            /\ <<e.src_take, e.src_index>> \in SelectedLayers(nodes_src)
            /\ e.src_index <= Len(takes[e.src_take].layers)
            /\ e.index > Len(takes[e.dst].layers)
            /\ \A c \in Leaves :
                  LET old == takes[e.src_take].layers[e.src_index].curves[c]
                      new == takes'[e.dst].layers[e.index].curves[c]
                  IN  IF Len(old) > 0 THEN CurveRepeats(old, new) ELSE new = << >>
    ]_vars

\* C23 witness: a Transfer run copied the base layers of T1 and of T2 onto
\* T2: T2 first received the copy of T1's base layer, then its own base
\* layer was collected and copied, and that copy holds the keys of T2's base
\* layer and not those of the layer received before.
C23_Witness ==
    /\ transfers = 1
    /\ Len(created) = 2
    /\ created[1] = [dst |-> 2, index |-> 2, src_take |-> 1, src_index |-> 1]
    /\ created[2] = [dst |-> 2, index |-> 3, src_take |-> 2, src_index |-> 1]
    /\ Len(takes[2].layers[2].curves["Cube.T.X"]) = 2
    /\ Len(takes[2].layers[2].curves["Light.Intensity"]) = 1
    /\ Len(takes[2].layers[3].curves["Cube.T.X"]) = 1
    /\ Len(takes[2].layers[3].curves["Cube.T.Y"]) = 1
    /\ takes[2].layers[3].curves["Light.Intensity"] = << >>

-----------------------------------------------------------------------------
(* Claim about the check boxes of the source tree, checked under SpecSelect *)

\* C22: whatever check box clicks and All, None, Invert, By-Name, Reload and
\* Transfer runs came before, every take node of the source tree is checked
\* exactly when one of its layer nodes is, and no Transfer run has found a
\* checked take node without a checked layer node.
C22_TakeCheckedIffLayerChecked ==
    /\ \A t \in Takes : nodes_src[t].Checked <=> SomeChildChecked(nodes_src[t])
    /\ ~idleTake

\* C22 witness: after a Transfer run that made layers, T1's node is checked
\* with some of its layer nodes checked and some not, and T2's node and its
\* layer nodes are unchecked.
C22_Witness ==
    /\ transfers = 1
    /\ created # << >>
    /\ nodes_src[1].Checked
    /\ \E j, k \in 1..Len(nodes_src[1].children) :
          nodes_src[1].children[j].Checked /\ ~nodes_src[1].children[k].Checked
    /\ ~nodes_src[2].Checked
    /\ ~SomeChildChecked(nodes_src[2])

=============================================================================
